---- MODULE Spec2Model ----
(***************************************************************************)
(* Model of the Clip Finder backend (src/backend/main.py): video ingestion *)
(* as a background task, the status file, and the /search handler with its *)
(* text / visual / hybrid scoring, deduplication and ranking.              *)
(*                                                                         *)
(* Units: scores, similarities and progress are in thousandths (1000 is    *)
(* 1.0); timestamps are in hundredths of a second (104 is 1.04 s); a       *)
(* rounded timestamp (round(ts, 1)) is in tenths of a second.              *)
(***************************************************************************)
EXTENDS Integers, Sequences, FiniteSets, TLC

\* ------------------------------------------------------------------ bounds
\* A session of the ranking specification holds at most MaxItems segments
\* and frames altogether.
MaxItems == 3
\* top_k of a search request ranges over 1..MaxTopK.
MaxTopK == 2
\* The search history holds at most MaxHistory entries altogether; a search
\* that would append one more is not taken.
MaxHistory == 2
\* An ingestion of the progress specification extracts 0..MaxFrames frames.
MaxFrames == 101
\* The bookmarks hold at most MaxBookmarks entries altogether.
MaxBookmarks == 1

\* ------------------------------------------------------- program constants
RATE_LIMIT == 50
KEYWORD_BONUS == 300
TEXT_THRESHOLD == 300
HYBRID_VISUAL_THRESHOLD == 200
SCORE_CAP == 1000
\* The visual_data loop writes the status at every PROGRESS_EVERY-th frame.
PROGRESS_EVERY == 50

\* ------------------------------------------------------------ pure helpers
Min(a, b) == IF a <= b THEN a ELSE b

Max(a, b) == IF a >= b THEN a ELSE b

\* round(ts, 1) of a timestamp given in hundredths, as a number of tenths.
\* A timestamp whose last digit is 5 is a tie only on paper: the double
\* nearest to it lies above or below the tie, and HalfUp lists the ones that
\* lie above (or are exact ties with an odd tenth), for timestamps below 400.
HalfUp == {5, 45, 55, 65, 75, 105, 135, 155, 175, 185, 235, 245, 275, 285, 295,
           335, 345, 375, 385, 395}

Round1(ts) ==
    LET q == ts \div 10
        r == ts % 10
    IN  IF r < 5 THEN q
        ELSE IF r > 5 THEN q + 1
        ELSE IF ts \in HalfUp THEN q + 1 ELSE q

\* str.lower() on a text given as a sequence of characters.
LowerChar(c) ==
    CASE c = "A" -> "a"
      [] c = "C" -> "c"
      [] c = "D" -> "d"
      [] c = "T" -> "t"
      [] OTHER -> c

Lower(s) == [i \in 1..Len(s) |-> LowerChar(s[i])]

\* Python's `needle in haystack` on strings.
Contains(haystack, needle) ==
    \E i \in 0..(Len(haystack) - Len(needle)) :
        SubSeq(haystack, i + 1, i + Len(needle)) = needle

Abs(x) == IF x < 0 THEN -x ELSE x

\* np.linalg.norm on a 4-vector whose norm is a whole number: the integer
\* square root of the sum of squares, which no sum of magnitudes exceeds.
Norm(v) ==
    LET s == v[1] * v[1] + v[2] * v[2] + v[3] * v[3] + v[4] * v[4]
    IN  CHOOSE n \in 0..(Abs(v[1]) + Abs(v[2]) + Abs(v[3]) + Abs(v[4])) :
            n * n <= s /\ (n + 1) * (n + 1) > s

Dot(a, b) == a[1] * b[1] + a[2] * b[2] + a[3] * b[3] + a[4] * b[4]

\* cosine_similarity: 0.0 when either norm is zero.
cosine_similarity(a, b) ==
    LET dot_product == Dot(a, b)
        norm_a == Norm(a)
        norm_b == Norm(b)
    IN  IF norm_a = 0 \/ norm_b = 0 THEN 0
        ELSE (dot_product * 1000) \div (norm_a * norm_b)

\* The hybrid weight left out.
HybridWeightLeftOut(x) == x

\* x * 0.5, the weight of either mode in a hybrid search.
HybridWeight(x) == (x * 5) \div 10

\* A descending sort that puts equal keys in the reverse of their original
\* order (an ascending sort followed by a reversal).
ReversedTiesOrderDesc(keys) ==
    LET n == Len(keys)
        Rank(i) == Cardinality({j \in 1..n : keys[j] > keys[i]})
                   + Cardinality({j \in (i + 1)..n : keys[j] = keys[i]}) + 1
    IN  [r \in 1..n |-> CHOOSE i \in 1..n : Rank(i) = r]

\* list.sort(key=..., reverse=True) is stable: the positions of `keys` by
\* descending key, equal keys in their original order.
StableOrderDesc(keys) ==
    LET n == Len(keys)
        Rank(i) == Cardinality({j \in 1..n : keys[j] > keys[i]})
                   + Cardinality({j \in 1..(i - 1) : keys[j] = keys[i]}) + 1
    IN  [r \in 1..n |-> CHOOSE i \in 1..n : Rank(i) = r]

\* The sort without reverse=True: ascending by score.
SortByScoreAsc(results) ==
    LET order == StableOrderDesc([i \in 1..Len(results) |-> 0 - results[i].score])
    IN  [r \in 1..Len(results) |-> results[order[r]]]

\* results.sort(key=lambda x: x["score"], reverse=True)
SortByScoreDesc(results) ==
    LET order == StableOrderDesc([i \in 1..Len(results) |-> results[i].score])
    IN  [r \in 1..Len(results) |-> results[order[r]]]

\* visual_matches.sort(key=lambda x: x["similarity"], reverse=True)
SortBySimilarityDesc(matches) ==
    LET order == StableOrderDesc([i \in 1..Len(matches) |-> matches[i].similarity])
    IN  [r \in 1..Len(matches) |-> matches[order[r]]]

\* some_list[:n] for n >= 0
Prefix(s, n) == SubSeq(s, 1, Min(n, Len(s)))

\* ------------------------------------------------------------- the search
\* The outcome of an embedding-provider call: a vector, or an exception.
\* (NotCalled marks the provider a search of the other single mode never calls.)
Raised == [outcome |-> "raised", vec |-> <<0, 0, 0, 0>>]

NotCalled == [outcome |-> "not_called", vec |-> <<0, 0, 0, 0>>]

Returned(vec) == [outcome |-> "returned", vec |-> vec]

\* The text of a visual result: the first segment whose [start, end] holds
\* the timestamp, else the placeholder "Visual content at <ts>s".
CorrespondingText(segments, timestamp) ==
    LET hits == {i \in 1..Len(segments) :
                    segments[i].start <= timestamp /\ timestamp <= segments[i].end}
    IN  IF hits = {} THEN <<"Visual content at", ToString(Round1(timestamp))>>
        ELSE segments[CHOOSE i \in hits : \A j \in hits : i <= j].text

\* The text loop with the threshold test written >= instead of >.
RECURSIVE TextScanInclusive(_, _, _, _)
TextScanInclusive(data, query, query_embedding, i) ==
    IF i = 0 THEN <<>>
    ELSE LET prev == TextScanInclusive(data, query, query_embedding, i - 1)
             seg == data.segments[i]
         IN  IF i > Len(data.text_embeddings) THEN prev
             ELSE LET similarity ==
                          cosine_similarity(query_embedding, data.text_embeddings[i])
                      keyword_bonus ==
                          IF Contains(Lower(seg.text), Lower(query))
                          THEN KEYWORD_BONUS ELSE 0
                      combined_score == similarity + keyword_bonus
                  IN  IF combined_score >= TEXT_THRESHOLD
                      THEN Append(prev, [timestamp |-> seg.start,
                                         text |-> seg.text,
                                         score |-> Min(combined_score, SCORE_CAP),
                                         search_type |-> "text",
                                         end |-> seg.end,
                                         frame_number |-> -1])
                      ELSE prev

\* The text loop with the score left uncapped.
RECURSIVE TextScanUncapped(_, _, _, _)
TextScanUncapped(data, query, query_embedding, i) ==
    IF i = 0 THEN <<>>
    ELSE LET prev == TextScanUncapped(data, query, query_embedding, i - 1)
             seg == data.segments[i]
         IN  IF i > Len(data.text_embeddings) THEN prev
             ELSE LET similarity ==
                          cosine_similarity(query_embedding, data.text_embeddings[i])
                      keyword_bonus ==
                          IF Contains(Lower(seg.text), Lower(query))
                          THEN KEYWORD_BONUS ELSE 0
                      combined_score == similarity + keyword_bonus
                  IN  IF combined_score > TEXT_THRESHOLD
                      THEN Append(prev, [timestamp |-> seg.start,
                                         text |-> seg.text,
                                         score |-> combined_score,
                                         search_type |-> "text",
                                         end |-> seg.end,
                                         frame_number |-> -1])
                      ELSE prev

\* The loop of the text branch over the first i segments.
RECURSIVE TextScan(_, _, _, _)
TextScan(data, query, query_embedding, i) ==
    IF i = 0 THEN <<>>
    ELSE LET prev == TextScan(data, query, query_embedding, i - 1)
             seg == data.segments[i]
         IN  IF i > Len(data.text_embeddings) THEN prev
             ELSE LET similarity ==
                          cosine_similarity(query_embedding, data.text_embeddings[i])
                      keyword_bonus ==
                          IF Contains(Lower(seg.text), Lower(query))
                          THEN KEYWORD_BONUS ELSE 0
                      combined_score == similarity + keyword_bonus
                  IN  IF combined_score > TEXT_THRESHOLD
                      THEN Append(prev, [timestamp |-> seg.start,
                                         text |-> seg.text,
                                         score |-> Min(combined_score, SCORE_CAP),
                                         search_type |-> "text",
                                         end |-> seg.end,
                                         frame_number |-> -1])
                      ELSE prev

\* The text branch: the provider call, then the loop; an exception leaves
\* the result list empty.
TextSearch(data, query, provided) ==
    IF provided.outcome = "returned"
    THEN TextScan(data, query, provided.vec, Len(data.segments))
    ELSE <<>>

\* The visual branch with the hybrid branch's similarity filter applied.
VisualSearchFiltered(data, provided, top_k) ==
    IF provided.outcome # "returned" THEN <<>>
    ELSE LET visual_data == data.visual_data
             scored ==
                 [i \in 1..Len(visual_data) |->
                     [timestamp |-> visual_data[i].timestamp,
                      frame_number |-> visual_data[i].frame_number,
                      similarity |-> cosine_similarity(provided.vec,
                                                       visual_data[i].embedding)]]
             visual_matches ==
                 SelectSeq(scored, LAMBDA m : m.similarity > HYBRID_VISUAL_THRESHOLD)
             top_matches == Prefix(SortBySimilarityDesc(visual_matches), top_k * 2)
         IN  IF Len(top_matches) = 0 THEN <<>>
             ELSE [i \in 1..Len(top_matches) |->
                      [timestamp |-> top_matches[i].timestamp,
                       text |-> CorrespondingText(data.segments,
                                                  top_matches[i].timestamp),
                       score |-> top_matches[i].similarity,
                       search_type |-> "visual",
                       end |-> top_matches[i].timestamp + 100,
                       frame_number |-> top_matches[i].frame_number]]

\* The visual branch: score every frame, sort, keep 2 * top_k, convert.  With
\* no frame at all top_matches[0] raises and the result list stays empty.
VisualSearch(data, provided, top_k) ==
    IF provided.outcome # "returned" THEN <<>>
    ELSE LET visual_data == data.visual_data
             visual_matches ==
                 [i \in 1..Len(visual_data) |->
                     [timestamp |-> visual_data[i].timestamp,
                      frame_number |-> visual_data[i].frame_number,
                      similarity |-> cosine_similarity(provided.vec,
                                                       visual_data[i].embedding)]]
             top_matches == Prefix(SortBySimilarityDesc(visual_matches), top_k * 2)
         IN  IF Len(top_matches) = 0 THEN <<>>
             ELSE [i \in 1..Len(top_matches) |->
                      [timestamp |-> top_matches[i].timestamp,
                       text |-> CorrespondingText(data.segments,
                                                  top_matches[i].timestamp),
                       score |-> top_matches[i].similarity,
                       search_type |-> "visual",
                       end |-> top_matches[i].timestamp + 100,
                       frame_number |-> top_matches[i].frame_number]]

\* The loop of the text half of the hybrid branch over the first i segments.
RECURSIVE HybridTextScan(_, _, _, _)
HybridTextScan(data, query, query_embedding, i) ==
    IF i = 0 THEN <<>>
    ELSE LET prev == HybridTextScan(data, query, query_embedding, i - 1)
             seg == data.segments[i]
         IN  IF i > Len(data.text_embeddings) THEN prev
             ELSE LET similarity ==
                          cosine_similarity(query_embedding, data.text_embeddings[i])
                      keyword_bonus ==
                          IF Contains(Lower(seg.text), Lower(query))
                          THEN KEYWORD_BONUS ELSE 0
                      combined_score == similarity + keyword_bonus
                  IN  IF combined_score > TEXT_THRESHOLD
                      THEN Append(prev, [timestamp |-> seg.start,
                                         text |-> seg.text,
                                         score |-> HybridWeight(Min(combined_score,
                                                                    SCORE_CAP)),
                                         search_type |-> "text",
                                         end |-> seg.end,
                                         frame_number |-> -1])
                      ELSE prev

HybridTextSearch(data, query, provided) ==
    IF provided.outcome = "returned"
    THEN HybridTextScan(data, query, provided.vec, Len(data.segments))
    ELSE <<>>

\* The loop of the visual half of the hybrid branch over the first i frames.
RECURSIVE HybridVisualScan(_, _, _)
HybridVisualScan(data, query_visual_embedding, i) ==
    IF i = 0 THEN <<>>
    ELSE LET prev == HybridVisualScan(data, query_visual_embedding, i - 1)
             vd == data.visual_data[i]
             similarity == cosine_similarity(query_visual_embedding, vd.embedding)
         IN  IF similarity > HYBRID_VISUAL_THRESHOLD
             THEN Append(prev, [timestamp |-> vd.timestamp,
                                text |-> CorrespondingText(data.segments, vd.timestamp),
                                score |-> HybridWeight(similarity),
                                search_type |-> "visual",
                                end |-> vd.timestamp + 100,
                                frame_number |-> vd.frame_number])
             ELSE prev

HybridVisualSearch(data, provided) ==
    IF provided.outcome = "returned"
    THEN HybridVisualScan(data, provided.vec, Len(data.visual_data))
    ELSE <<>>

\* The hybrid branch with both provider calls under one try: an exception of
\* either provider leaves the whole candidate list empty.
CandidatesOneTry(data, req) ==
    CASE req.search_type = "text" ->
            TextSearch(data, req.query, req.text_provider)
      [] req.search_type = "visual" ->
            VisualSearch(data, req.visual_provider, req.top_k)
      [] OTHER ->
            IF req.text_provider = Raised \/ req.visual_provider = Raised THEN <<>>
            ELSE HybridTextSearch(data, req.query, req.text_provider)
                 \o HybridVisualSearch(data, req.visual_provider)

\* The candidate list a search of the given type builds (`results` before
\* the first sort).
Candidates(data, req) ==
    CASE req.search_type = "text" ->
            TextSearch(data, req.query, req.text_provider)
      [] req.search_type = "visual" ->
            VisualSearch(data, req.visual_provider, req.top_k)
      [] OTHER ->
            HybridTextSearch(data, req.query, req.text_provider)
            \o HybridVisualSearch(data, req.visual_provider)

\* The duplicate-removal loop that never records a timestamp as seen.
DedupScanNothingSeen(results, i) ==
    [seen |-> [b \in {} |-> 0], unique |-> SubSeq(results, 1, i)]

\* The duplicate-removal loop with the score comparison flipped.
RECURSIVE DedupScanFlipped(_, _)
DedupScanFlipped(results, i) ==
    IF i = 0 THEN [seen |-> [b \in {} |-> 0], unique |-> <<>>]
    ELSE LET prev == DedupScanFlipped(results, i - 1)
             r == results[i]
             ts == Round1(r.timestamp)
         IN  IF ts \notin DOMAIN prev.seen \/ prev.seen[ts] > r.score
             THEN [seen |-> (ts :> r.score) @@ prev.seen,
                   unique |->
                       Append(IF ts \in DOMAIN prev.seen
                              THEN SelectSeq(prev.unique,
                                             LAMBDA ur : Round1(ur.timestamp) # ts)
                              ELSE prev.unique,
                              r)]
             ELSE prev

\* The duplicate-removal loop over the first i sorted results: seen maps a
\* rounded timestamp to the score kept for it, unique is the kept list.
RECURSIVE DedupScan(_, _)
DedupScan(results, i) ==
    IF i = 0 THEN [seen |-> [b \in {} |-> 0], unique |-> <<>>]
    ELSE LET prev == DedupScan(results, i - 1)
             r == results[i]
             ts == Round1(r.timestamp)
         IN  IF ts \notin DOMAIN prev.seen \/ prev.seen[ts] < r.score
             THEN [seen |-> (ts :> r.score) @@ prev.seen,
                   unique |->
                       Append(IF ts \in DOMAIN prev.seen
                              THEN SelectSeq(prev.unique,
                                             LAMBDA ur : Round1(ur.timestamp) # ts)
                              ELSE prev.unique,
                              r)]
             ELSE prev

\* unique_results: sort, remove duplicates, sort again.
UniqueResults(results) ==
    LET sorted == SortByScoreDesc(results)
    IN  SortByScoreDesc(DedupScan(sorted, Len(sorted)).unique)

HistoryEntryLastScore(req, unique_results) ==
    [query |-> req.query,
     search_type |-> req.search_type,
     results_count |-> Len(unique_results),
     top_score |-> IF Len(unique_results) > 0
                   THEN unique_results[Len(unique_results)].score ELSE 0]

\* The entry a search appends to the video's search history.
HistoryEntry(req, unique_results) ==
    [query |-> req.query,
     search_type |-> req.search_type,
     results_count |-> Len(unique_results),
     top_score |-> IF Len(unique_results) > 0 THEN unique_results[1].score ELSE 0]

\* ------------------------------------------------------------------ state
\* The video identifiers generate_video_id hands out, in this order.
VideoIds == <<"v1", "v2">>

Videos == {VideoIds[i] : i \in 1..Len(VideoIds)}

\* generate_video_id: an identifier no earlier upload received.
generate_video_id(handed_out) == VideoIds[Cardinality(handed_out) + 1]

NoFile == [exists |-> FALSE]

NoResponse == [handler |-> "none"]

VARIABLES
    rate_limit_store,   \* the dict rate_limit_store: "ip:day" key -> count
    issued,             \* the video identifiers handed out so far
    video_files,        \* UPLOAD_DIR/<id>.mp4 that exist
    audio_files,        \* UPLOAD_DIR/<id>.wav that exist
    frames_dirs,        \* UPLOAD_DIR/<id>_frames that exist
    tables,             \* the LanceDB tables, <<"text", id>> and <<"visual", id>>
    cache,              \* CACHE_DIR/<id>.json: the status file of each video
    data_file,          \* CACHE_DIR/<id>_data.json: the processed data
    search_history,     \* the dict search_history (a missing key is <<>>)
    bookmarks,          \* the dict bookmarks (a missing key is <<>>)
    clips,              \* the clip files that exist in CLIPS_DIR
    task,               \* the background task of each video: position and locals
    loop,               \* the task running on the event loop, or "idle"
    resp                \* the response of the last request served

vars == <<rate_limit_store, issued, video_files, audio_files, frames_dirs, tables,
          cache, data_file, search_history, bookmarks, clips, task, loop, resp>>

files == <<video_files, audio_files, frames_dirs, tables, cache, data_file>>

NoTask == [pc |-> "none"]

\* ------------------------------------------------------------- the inputs
\* Texts as sequences of characters; transcribe_audio keeps texts of three
\* characters or more.
TextCat == <<"C", "a", "t">>

TextDog == <<"d", "o", "g">>

Texts == {TextCat, TextDog}

QueryCat == <<"c", "A", "t">>

Queries == {<<>>, QueryCat}

\* Embeddings: 4-vectors of norm 10.  Against QueryVec their cosine
\* similarities are 1.0, 0.6, 0.2, 0.0 and -0.6.
QueryVec == <<10, 0, 0, 0>>

Vec1000 == <<10, 0, 0, 0>>

Vec600 == <<6, 8, 0, 0>>

Vec200 == <<2, 8, 4, 4>>

Vec0 == <<0, 10, 0, 0>>

VecNeg600 == <<-6, 8, 0, 0>>

TextVecs == {Vec1000, Vec200, Vec0, VecNeg600}

FrameVecs == {Vec1000, Vec200, VecNeg600}

\* The [start, end] spans a transcript draws its segments from, in order and
\* without overlap; the first two round to the same tenth of a second, which
\* is also the timestamp of frame 1.
Spans == <<[start |-> 96, end |-> 100], [start |-> 104, end |-> 150],
           [start |-> 150, end |-> 250]>>

\* Strictly increasing index sequences of length n into Spans.
RECURSIVE Increasing(_)
Increasing(n) ==
    IF n = 0 THEN {<<>>}
    ELSE {Append(s, k) : s \in {t \in Increasing(n - 1) : TRUE}, k \in 1..Len(Spans)}

IsIncreasing(s) == \A i \in 1..(Len(s) - 1) : s[i] < s[i + 1]

\* The processed data of a session with ns segments and nf frames: frame i
\* has timestamp i * 1.0 and frame number i.
SessionData(ns, nf) ==
    {[segments |-> [i \in 1..ns |-> [start |-> Spans[idx[i]].start,
                                     end |-> Spans[idx[i]].end,
                                     text |-> txt[i]]],
      text_embeddings |-> emb,
      visual_data |-> [i \in 1..nf |-> [timestamp |-> (i - 1) * 100,
                                        frame_number |-> i - 1,
                                        embedding |-> femb[i]]]] :
        idx \in {s \in Increasing(ns) : IsIncreasing(s)},
        txt \in [1..ns -> Texts],
        emb \in [1..ns -> TextVecs],
        femb \in [1..nf -> FrameVecs]}

\* The search requests for a video: a provider the search type does not use
\* is not called.
Requests(v, queries) ==
    {[video_id |-> v, query |-> q, search_type |-> t, top_k |-> k,
      text_provider |-> tp, visual_provider |-> vp] :
        q \in queries, t \in {"text", "visual", "hybrid"}, k \in 1..MaxTopK,
        tp \in {Raised, NotCalled, Returned(QueryVec)},
        vp \in {Raised, NotCalled, Returned(QueryVec)}}

WellFormed(req) ==
    /\ (req.text_provider = NotCalled) <=> (req.search_type = "visual")
    /\ (req.visual_provider = NotCalled) <=> (req.search_type = "text")

BookmarksTotal ==
    LET RECURSIVE Sum(_)
        Sum(S) == IF S = {} THEN 0
                  ELSE LET v == CHOOSE x \in S : TRUE
                       IN  Len(bookmarks[v]) + Sum(S \ {v})
    IN  Sum(Videos)

HistoryTotal ==
    LET RECURSIVE Sum(_)
        Sum(S) == IF S = {} THEN 0
                  ELSE LET v == CHOOSE x \in S : TRUE
                       IN  Len(search_history[v]) + Sum(S \ {v})
    IN  Sum(Videos)

\* ---------------------------------------------------------------- /search
\* POST /search: 404 when the data file is missing; else the candidates of
\* the search type, ranked and deduplicated, one history entry, the top_k.
search_video(req) ==
    /\ loop = "idle"
    /\ HistoryTotal < MaxHistory
    /\ IF ~data_file[req.video_id].exists
       THEN /\ resp' = [handler |-> "search", request |-> req, status_code |-> 404,
                        candidates |-> <<>>, unique_results |-> <<>>,
                        results |-> <<>>, total_matches |-> 0]
            /\ UNCHANGED search_history
       ELSE LET data == data_file[req.video_id].data
                results == Candidates(data, req)
                unique_results == UniqueResults(results)
            IN  /\ search_history' =
                       [search_history EXCEPT ![req.video_id] =
                           Append(@, HistoryEntry(req, unique_results))]
                /\ resp' = [handler |-> "search", request |-> req,
                            status_code |-> 200,
                            candidates |-> results,
                            unique_results |-> unique_results,
                            results |-> Prefix(unique_results, req.top_k),
                            total_matches |-> Len(unique_results)]
    /\ UNCHANGED <<bookmarks, clips, rate_limit_store, issued, files, task, loop>>

\* --------------------------------------------- the ranking specification
\* One completed session whose processed data is drawn from SessionData, and
\* search requests against it.
CompletedStatus == [exists |-> TRUE, status |-> "completed", progress |-> 1000]

InitRanking ==
    /\ rate_limit_store = <<>>
    /\ issued = {"v1"}
    /\ video_files = {"v1"}
    /\ audio_files = {}
    /\ \E ns \in 0..MaxItems, nf \in 0..MaxItems :
          /\ ns + nf <= MaxItems
          /\ ns <= Len(Spans)
          /\ \E d \in SessionData(ns, nf) :
                /\ data_file = [v \in Videos |->
                                   IF v = "v1" THEN [exists |-> TRUE, data |-> d]
                                   ELSE NoFile]
                /\ tables = (IF ns > 0 THEN {<<"text", "v1">>} ELSE {})
                            \cup (IF nf > 0 THEN {<<"visual", "v1">>} ELSE {})
    /\ frames_dirs = {"v1"}
    /\ cache = [v \in Videos |-> IF v = "v1" THEN CompletedStatus ELSE NoFile]
    /\ search_history = [v \in Videos |-> <<>>]
    /\ bookmarks = [v \in Videos |-> <<>>]
    /\ clips = {}
    /\ task = [v \in Videos |-> IF v = "v1" THEN [pc |-> "done"] ELSE NoTask]
    /\ loop = "idle"
    /\ resp = NoResponse

\* Each behaviour applies the search once to the session it drew.
RankedSearch ==
    /\ resp = NoResponse
    /\ \E req \in Requests("v1", {QueryCat}) : WellFormed(req) /\ search_video(req)

NextRanking == RankedSearch

SpecRanking == InitRanking /\ [][NextRanking]_vars

\* ------------------------------------------------- the ingestion pipeline
\* What the collaborators of an ingestion return: the transcript, the number
\* of frames ffmpeg extracts, the embedding of a segment text and the
\* embedding of the image at a frame path (frame paths are 1, 2, ...).
Transcripts == {<<>>, <<[start |-> Spans[1].start, end |-> Spans[1].end,
                         text |-> TextCat]>>}

FrameCounts == {0, 2}

EmbedText(text) == Vec600

EmbedImage(path) == IF path = 1 THEN Vec600 ELSE Vec200

Clients == {"ip1"}

Today == "today"

Status(status, progress) ==
    [exists |-> TRUE, status |-> status, progress |-> progress]

check_rate_limit(store, ip) ==
    LET key == <<ip, Today>>
        used == IF key \in DOMAIN store THEN store[key] ELSE 0
    IN  IF used >= RATE_LIMIT THEN [allowed |-> FALSE, store |-> (key :> used) @@ store]
        ELSE [allowed |-> TRUE, store |-> (key :> (used + 1)) @@ store]

get_rate_limit_remaining(ip) ==
    LET key == <<ip, Today>>
        used == IF key \in DOMAIN rate_limit_store THEN rate_limit_store[key] ELSE 0
    IN  Max(0, RATE_LIMIT - used)

\* POST /upload: 429 past the rate limit, 400 on a bad file name, 500 when
\* the content is too large or cannot be saved; else the file is saved and
\* process_video_background is scheduled as a task.
upload_video(ip, file) ==
    /\ loop = "idle"
    /\ LET remaining == get_rate_limit_remaining(ip)
       IN  IF remaining <= 0
           THEN /\ resp' = [handler |-> "upload", status_code |-> 429]
                /\ UNCHANGED <<issued, video_files, task>>
           ELSE IF file \in {"no_filename", "bad_format"}
           THEN /\ resp' = [handler |-> "upload", status_code |-> 400]
                /\ UNCHANGED <<issued, video_files, task>>
           ELSE LET v == generate_video_id(issued)
                IN /\ issued # Videos
                   /\ issued' = issued \cup {v}
                   /\ IF file = "too_large"
                      THEN /\ resp' = [handler |-> "upload", status_code |-> 500]
                           /\ UNCHANGED <<video_files, task>>
                      ELSE /\ video_files' = video_files \cup {v}
                           /\ task' = [task EXCEPT ![v] = [pc |-> "queued_file"]]
                           /\ resp' = [handler |-> "upload", status_code |-> 200,
                                       video_id |-> v,
                                       remaining_uploads |-> remaining - 1]
    /\ UNCHANGED <<bookmarks, clips, rate_limit_store, audio_files, frames_dirs, tables, cache,
                   data_file, search_history, loop>>

\* POST /upload-url: 429 past the rate limit, 400 on an empty URL; else the
\* status file is written and download_and_process_youtube is scheduled.
upload_youtube_url(ip, url) ==
    /\ loop = "idle"
    /\ LET remaining == get_rate_limit_remaining(ip)
       IN  IF remaining <= 0
           THEN /\ resp' = [handler |-> "upload-url", status_code |-> 429]
                /\ UNCHANGED <<issued, cache, task>>
           ELSE IF url = "empty"
           THEN /\ resp' = [handler |-> "upload-url", status_code |-> 400]
                /\ UNCHANGED <<issued, cache, task>>
           ELSE LET v == generate_video_id(issued)
                IN /\ issued # Videos
                   /\ issued' = issued \cup {v}
                   /\ cache' = [cache EXCEPT ![v] = Status("downloading", 50)]
                   /\ task' = [task EXCEPT ![v] = [pc |-> "queued_url"]]
                   /\ resp' = [handler |-> "upload-url", status_code |-> 200,
                               video_id |-> v,
                               remaining_uploads |-> remaining - 1]
    /\ UNCHANGED <<bookmarks, clips, rate_limit_store, video_files, audio_files, frames_dirs, tables,
                   data_file, search_history, loop>>

\* The except branch of a background task: the status file becomes error
\* with progress 0, and the task ends.
TaskFails(v) ==
    /\ cache' = [cache EXCEPT ![v] = Status("error", 0)]
    /\ task' = [task EXCEPT ![v] = [pc |-> "done"]]
    /\ loop' = "idle"

\* download_and_process_youtube up to the call of process_video_background.
download_and_process_youtube(v, downloaded) ==
    /\ loop = "idle"
    /\ task[v].pc = "queued_url"
    /\ IF downloaded
       THEN /\ cache' = [cache EXCEPT ![v] = Status("downloading", 100)]
            /\ video_files' = video_files \cup {v}
            /\ task' = [task EXCEPT ![v] = [pc |-> "begin"]]
            /\ loop' = v
       ELSE /\ TaskFails(v)
            /\ UNCHANGED video_files
    /\ UNCHANGED <<bookmarks, clips, rate_limit_store, issued, audio_files, frames_dirs, tables,
                   data_file, search_history, resp>>

\* process_video_background, step 1: check_ffmpeg, status processing 0.15.
process_begin(v, ffmpeg) ==
    /\ \/ loop = "idle" /\ task[v].pc = "queued_file"
       \/ loop = v /\ task[v].pc = "begin"
    /\ IF ffmpeg
       THEN /\ cache' = [cache EXCEPT ![v] = Status("processing", 150)]
            /\ task' = [task EXCEPT ![v] = [pc |-> "extract_audio"]]
            /\ loop' = v
       ELSE TaskFails(v)
    /\ UNCHANGED <<bookmarks, clips, rate_limit_store, issued, video_files, audio_files, frames_dirs,
                   tables, data_file, search_history, resp>>

\* extract_audio, then status 0.3.
process_extract_audio(v, extracted) ==
    /\ loop = v
    /\ task[v].pc = "extract_audio"
    /\ IF extracted
       THEN /\ audio_files' = audio_files \cup {v}
            /\ cache' = [cache EXCEPT ![v] = Status("processing", 300)]
            /\ task' = [task EXCEPT ![v] = [pc |-> "transcribe"]]
            /\ UNCHANGED loop
       ELSE /\ TaskFails(v)
            /\ UNCHANGED audio_files
    /\ UNCHANGED <<bookmarks, clips, rate_limit_store, issued, video_files, frames_dirs, tables,
                   data_file, search_history, resp>>

\* transcribe_audio (it returns segments whatever happens), then status 0.45.
process_transcribe(v, segments) ==
    /\ loop = v
    /\ task[v].pc = "transcribe"
    /\ cache' = [cache EXCEPT ![v] = Status("processing", 450)]
    /\ task' = [task EXCEPT ![v] = [pc |-> "extract_frames", segments |-> segments]]
    /\ UNCHANGED <<bookmarks, clips, rate_limit_store, issued, video_files, audio_files, frames_dirs,
                   tables, data_file, search_history, loop, resp>>

\* extract_frames: the frames directory and the sorted frame paths, then
\* status 0.55.
process_extract_frames(v, count) ==
    /\ loop = v
    /\ task[v].pc = "extract_frames"
    /\ frames_dirs' = frames_dirs \cup {v}
    /\ cache' = [cache EXCEPT ![v] = Status("processing", 550)]
    /\ task' = [task EXCEPT ![v] = [pc |-> "text_embeddings",
                                    segments |-> task[v].segments,
                                    frame_paths |-> [i \in 1..count |-> i]]]
    /\ UNCHANGED <<bookmarks, clips, rate_limit_store, issued, video_files, audio_files, tables,
                   data_file, search_history, loop, resp>>

\* get_text_embeddings of the segment texts, then status 0.65.
process_text_embeddings(v) ==
    /\ loop = v
    /\ task[v].pc = "text_embeddings"
    /\ cache' = [cache EXCEPT ![v] = Status("processing", 650)]
    /\ task' = [task EXCEPT ![v] =
                   [pc |-> "visual_embeddings",
                    segments |-> task[v].segments,
                    frame_paths |-> task[v].frame_paths,
                    text_embeddings |->
                        [i \in 1..Len(task[v].segments) |->
                            EmbedText(task[v].segments[i].text)]]]
    /\ UNCHANGED <<bookmarks, clips, rate_limit_store, issued, video_files, audio_files, frames_dirs,
                   tables, data_file, search_history, loop, resp>>

\* encode_multiple_images_batch: the features of the images that load, in
\* path order; an image that fails to load is skipped.
encode_multiple_images_batch(image_paths, unreadable) ==
    LET loaded == SelectSeq(image_paths, LAMBDA path : path \notin unreadable)
    IN  [i \in 1..Len(loaded) |-> EmbedImage(loaded[i])]

\* The visual_data list: zip(frame_paths, visual_embeddings), enumerated.
VisualData(frame_paths, visual_embeddings) ==
    [i \in 1..Min(Len(frame_paths), Len(visual_embeddings)) |->
        [timestamp |-> (i - 1) * 100,
         frame_path |-> frame_paths[i],
         frame_number |-> i - 1,
         embedding |-> visual_embeddings[i]]]

\* The progress the visual_data loop writes at frame i of n extracted frames:
\* 0.65 + (i / len(frame_paths)) * 0.25.
LoopProgressSteep(i, n) == 650 + (i * 350) \div n

LoopProgress(i, n) == 650 + (i * 250) \div n

\* The frame encoding: get_openclip_model and encode_multiple_images_batch.
process_visual_embeddings(v, openclip, unreadable) ==
    /\ loop = v
    /\ task[v].pc = "visual_embeddings"
    /\ IF openclip
       THEN /\ task' = [task EXCEPT ![v] =
                           [pc |-> "visual_data",
                            segments |-> task[v].segments,
                            text_embeddings |-> task[v].text_embeddings,
                            frame_paths |-> task[v].frame_paths,
                            visual_embeddings |->
                                encode_multiple_images_batch(task[v].frame_paths,
                                                             unreadable),
                            visual_data |-> <<>>]]
            /\ UNCHANGED <<cache, loop>>
       ELSE TaskFails(v)
    /\ UNCHANGED <<bookmarks, clips, rate_limit_store, issued, video_files, audio_files, frames_dirs,
                   tables, data_file, search_history, resp>>

\* The visual_data loop of a pipeline that raises when no frame was encoded.
process_visual_data_requires_frames(v) ==
    /\ loop = v
    /\ task[v].pc = "visual_data"
    /\ LET all == VisualData(task[v].frame_paths, task[v].visual_embeddings)
           i == Len(task[v].visual_data)
       IN  IF Len(all) = 0
           THEN TaskFails(v)
           ELSE IF i < Len(all)
           THEN /\ cache' = [cache EXCEPT ![v] =
                       Status("processing", LoopProgress(i, Len(task[v].frame_paths)))]
                /\ task' = [task EXCEPT ![v].visual_data =
                                Prefix(all, i + PROGRESS_EVERY)]
                /\ UNCHANGED loop
           ELSE /\ cache' = [cache EXCEPT ![v] = Status("processing", 920)]
                /\ task' = [task EXCEPT ![v] =
                                [pc |-> "store",
                                 segments |-> task[v].segments,
                                 text_embeddings |-> task[v].text_embeddings,
                                 visual_data |-> task[v].visual_data]]
                /\ UNCHANGED loop
    /\ UNCHANGED <<bookmarks, clips, rate_limit_store, issued, video_files, audio_files, frames_dirs,
                   tables, data_file, search_history, resp>>

\* The visual_data loop from one status write to the next: the iteration at
\* index i (a multiple of PROGRESS_EVERY) appends its record and writes the
\* status, the iterations up to the next multiple append theirs; once the
\* zip is exhausted the loop ends and status 0.92 is written.
process_visual_data(v) ==
    /\ loop = v
    /\ task[v].pc = "visual_data"
    /\ LET all == VisualData(task[v].frame_paths, task[v].visual_embeddings)
           i == Len(task[v].visual_data)
       IN  IF i < Len(all)
           THEN /\ cache' = [cache EXCEPT ![v] =
                       Status("processing", LoopProgress(i, Len(task[v].frame_paths)))]
                /\ task' = [task EXCEPT ![v].visual_data =
                                Prefix(all, i + PROGRESS_EVERY)]
           ELSE /\ cache' = [cache EXCEPT ![v] = Status("processing", 920)]
                /\ task' = [task EXCEPT ![v] =
                                [pc |-> "store",
                                 segments |-> task[v].segments,
                                 text_embeddings |-> task[v].text_embeddings,
                                 visual_data |-> task[v].visual_data]]
    /\ UNCHANGED <<bookmarks, clips, rate_limit_store, issued, video_files, audio_files, frames_dirs,
                   tables, data_file, search_history, loop, resp>>

\* get_lancedb, the two tables (each only when it has rows), the data file,
\* then status completed 1.0.
process_store(v, lancedb) ==
    /\ loop = v
    /\ task[v].pc = "store"
    /\ IF lancedb
       THEN /\ tables' = tables
                   \cup (IF Len(task[v].segments) > 0 THEN {<<"text", v>>} ELSE {})
                   \cup (IF Len(task[v].visual_data) > 0 THEN {<<"visual", v>>}
                         ELSE {})
            /\ data_file' = [data_file EXCEPT ![v] =
                   [exists |-> TRUE,
                    data |-> [segments |-> task[v].segments,
                              text_embeddings |-> task[v].text_embeddings,
                              visual_data |-> task[v].visual_data]]]
            /\ cache' = [cache EXCEPT ![v] = Status("completed", 1000)]
            /\ task' = [task EXCEPT ![v] = [pc |-> "cleanup"]]
            /\ UNCHANGED loop
       ELSE /\ TaskFails(v)
            /\ UNCHANGED <<tables, data_file>>
    /\ UNCHANGED <<bookmarks, clips, rate_limit_store, issued, video_files, audio_files, frames_dirs,
                   search_history, resp>>

\* The removal of the audio file after the completed status is written; an
\* exception of os.remove reaches the except branch like any other.
process_cleanup(v, removed) ==
    /\ loop = v
    /\ task[v].pc = "cleanup"
    /\ IF v \notin audio_files \/ removed
       THEN /\ audio_files' = audio_files \ {v}
            /\ task' = [task EXCEPT ![v] = [pc |-> "done"]]
            /\ loop' = "idle"
            /\ UNCHANGED cache
       ELSE /\ TaskFails(v)
            /\ UNCHANGED audio_files
    /\ UNCHANGED <<bookmarks, clips, rate_limit_store, issued, video_files, frames_dirs, tables,
                   data_file, search_history, resp>>

\* GET /status/{video_id}
get_status(v) ==
    /\ loop = "idle"
    /\ resp' = IF cache[v].exists
               THEN [handler |-> "status", video_id |-> v,
                     status |-> cache[v].status, progress |-> cache[v].progress]
               ELSE [handler |-> "status", video_id |-> v,
                     status |-> "not_found", progress |-> 0]
    /\ UNCHANGED <<bookmarks, clips, rate_limit_store, issued, files, search_history, task, loop>>

\* POST /bookmarks: the bookmark is appended under the video id it names,
\* whether or not that video exists.
add_bookmark(v, timestamp) ==
    /\ loop = "idle"
    /\ BookmarksTotal < MaxBookmarks
    /\ bookmarks' = [bookmarks EXCEPT ![v] = Append(@, [timestamp |-> timestamp])]
    /\ resp' = [handler |-> "bookmark", status_code |-> 200]
    /\ UNCHANGED <<clips, rate_limit_store, issued, files, search_history, task, loop>>

\* POST /create-clip: 404 when the data file is missing, 500 when create_clip
\* raises; else the file clip_<id>_<start>_<end>.mp4 exists in CLIPS_DIR.
create_video_clip(v, start_time, end_time, created) ==
    /\ loop = "idle"
    /\ IF ~data_file[v].exists
       THEN /\ resp' = [handler |-> "create-clip", status_code |-> 404]
            /\ UNCHANGED clips
       ELSE IF ~created
       THEN /\ resp' = [handler |-> "create-clip", status_code |-> 500]
            /\ UNCHANGED clips
       ELSE /\ clips' = clips \cup {<<v, start_time, end_time>>}
            /\ resp' = [handler |-> "create-clip", status_code |-> 200]
    /\ UNCHANGED <<bookmarks, rate_limit_store, issued, files, search_history, task, loop>>

\* DELETE /video/{video_id}: the frames directory, the video file, the status
\* file and the data file are removed, the two tables are dropped (an
\* exception there is caught), the history and the bookmarks of the video are
\* deleted.  The .wav file and the clips are not in the list.
delete_video(v, lancedb) ==
    /\ loop = "idle"
    /\ frames_dirs' = frames_dirs \ {v}
    /\ video_files' = video_files \ {v}
    /\ cache' = [cache EXCEPT ![v] = NoFile]
    /\ data_file' = [data_file EXCEPT ![v] = NoFile]
    /\ tables' = IF lancedb THEN tables \ {<<"text", v>>, <<"visual", v>>} ELSE tables
    /\ search_history' = [search_history EXCEPT ![v] = <<>>]
    /\ bookmarks' = [bookmarks EXCEPT ![v] = <<>>]
    /\ resp' = [handler |-> "delete", video_id |-> v, status_code |-> 200]
    /\ UNCHANGED <<clips, rate_limit_store, issued, audio_files, task, loop>>

\* ------------------------------------------------ the system specification
Init ==
    /\ rate_limit_store = <<>>
    /\ issued = {}
    /\ video_files = {}
    /\ audio_files = {}
    /\ frames_dirs = {}
    /\ tables = {}
    /\ cache = [v \in Videos |-> NoFile]
    /\ data_file = [v \in Videos |-> NoFile]
    /\ search_history = [v \in Videos |-> <<>>]
    /\ bookmarks = [v \in Videos |-> <<>>]
    /\ clips = {}
    /\ task = [v \in Videos |-> NoTask]
    /\ loop = "idle"
    /\ resp = NoResponse

Upload ==
    \E ip \in Clients, file \in {"ok", "no_filename", "bad_format", "too_large"} :
        upload_video(ip, file)

UploadUrl ==
    \E ip \in Clients, url \in {"ok", "empty"} : upload_youtube_url(ip, url)

Download == \E v \in Videos, downloaded \in BOOLEAN :
    download_and_process_youtube(v, downloaded)

Begin == \E v \in Videos, ffmpeg \in BOOLEAN : process_begin(v, ffmpeg)

ExtractAudio == \E v \in Videos, extracted \in BOOLEAN :
    process_extract_audio(v, extracted)

Transcribe == \E v \in Videos, segments \in Transcripts :
    process_transcribe(v, segments)

ExtractFrames == \E v \in Videos, count \in FrameCounts :
    process_extract_frames(v, count)

TextEmbeddings == \E v \in Videos : process_text_embeddings(v)

\* (OpenCLIP and LanceDB are installed, and every frame image loads.)
VisualEmbeddings == \E v \in Videos : process_visual_embeddings(v, TRUE, {})

VisualDataLoop == \E v \in Videos : process_visual_data(v)

Store == \E v \in Videos : process_store(v, TRUE)

Cleanup == \E v \in Videos, removed \in BOOLEAN : process_cleanup(v, removed)

GetStatus == \E v \in Videos : get_status(v)

AddBookmark == \E v \in Videos : add_bookmark(v, Spans[1].start)

CreateClip == \E v \in Videos, created \in BOOLEAN :
    create_video_clip(v, Spans[1].start, Spans[1].end, created)

\* (Deletion is requested for sessions whose ingestion has finished.)
Delete == \E v \in Videos : task[v].pc = "done" /\ delete_video(v, TRUE)

\* (The providers answer, every request asks for MaxTopK results, and a
\* behaviour searches while the histories are empty.)
Search ==
    \E v \in Videos : \E req \in Requests(v, Queries) :
        /\ HistoryTotal = 0
        /\ WellFormed(req)
        /\ req.top_k = MaxTopK
        /\ req.text_provider # Raised /\ req.visual_provider # Raised
        /\ search_video(req)

Next ==
    \/ Upload
    \/ UploadUrl
    \/ Download
    \/ Begin
    \/ ExtractAudio
    \/ Transcribe
    \/ ExtractFrames
    \/ TextEmbeddings
    \/ VisualEmbeddings
    \/ VisualDataLoop
    \/ Store
    \/ Cleanup
    \/ GetStatus
    \/ Search

Spec == Init /\ [][Next]_vars

\* ------------------------------------------- the deletion specification
\* The ingestion pipeline with bookmarks, clips, text searches and deletion.
TextSearchRequest ==
    \E v \in Videos : \E req \in Requests(v, {QueryCat}) :
        /\ req.search_type = "text"
        /\ req.top_k = MaxTopK
        /\ req.text_provider = Returned(QueryVec)
        /\ req.visual_provider = NotCalled
        /\ search_video(req)

NextDeletion ==
    \/ Upload
    \/ UploadUrl
    \/ Download
    \/ Begin
    \/ ExtractAudio
    \/ Transcribe
    \/ ExtractFrames
    \/ TextEmbeddings
    \/ VisualEmbeddings
    \/ VisualDataLoop
    \/ Store
    \/ Cleanup
    \/ GetStatus
    \/ AddBookmark
    \/ CreateClip
    \/ Delete
    \/ TextSearchRequest

SpecDeletion == Init /\ [][NextDeletion]_vars

\* -------------------------------------------- the progress specification
\* One ingestion (by file or by URL) and status reads, for every number of
\* frames up to MaxFrames.
FirstUpload == issued = {} /\ Upload

FirstUploadUrl == issued = {} /\ UploadUrl

ExtractFramesUpTo == \E v \in Videos, count \in 0..MaxFrames :
    process_extract_frames(v, count)

NextProgress ==
    \/ FirstUpload
    \/ FirstUploadUrl
    \/ Download
    \/ Begin
    \/ ExtractAudio
    \/ Transcribe
    \/ ExtractFramesUpTo
    \/ TextEmbeddings
    \/ VisualEmbeddings
    \/ VisualDataLoop
    \/ Store
    \/ Cleanup
    \/ GetStatus

SpecProgress == Init /\ [][NextProgress]_vars

\* ------------------------------------------- the alignment specification
\* One ingestion in which any subset of the extracted frame images fails to
\* load during the batch encoding, and status reads.
VisualEmbeddingsSomeUnreadable ==
    \E v \in Videos :
        /\ task[v].pc = "visual_embeddings"
        /\ \E unreadable \in SUBSET {task[v].frame_paths[i] :
                                        i \in 1..Len(task[v].frame_paths)} :
              process_visual_embeddings(v, TRUE, unreadable)

NextAlignment ==
    \/ FirstUpload
    \/ FirstUploadUrl
    \/ Download
    \/ Begin
    \/ ExtractAudio
    \/ Transcribe
    \/ ExtractFrames
    \/ TextEmbeddings
    \/ VisualEmbeddingsSomeUnreadable
    \/ VisualDataLoop
    \/ Store
    \/ Cleanup
    \/ GetStatus

SpecAlignment == Init /\ [][NextAlignment]_vars

\* --------------------------------------------- the history specification
\* One ingestion and a sequence of searches, of its session and of a
\* missing one.
HistorySearch ==
    \E v \in Videos : \E req \in Requests(v, Queries) :
        /\ WellFormed(req)
        /\ req.top_k = MaxTopK
        /\ req.text_provider # Raised /\ req.visual_provider # Raised
        /\ search_video(req)

NextHistory ==
    \/ FirstUpload
    \/ FirstUploadUrl
    \/ Download
    \/ Begin
    \/ ExtractAudio
    \/ Transcribe
    \/ ExtractFrames
    \/ TextEmbeddings
    \/ VisualEmbeddings
    \/ VisualDataLoop
    \/ Store
    \/ Cleanup
    \/ HistorySearch

SpecHistory == Init /\ [][NextHistory]_vars

\* ------------------------------------------------------------- the claims
\* The last request served was a search that returned a result list.
Served == resp.handler = "search" /\ resp.status_code = 200

ServedType(t) == Served /\ resp.request.search_type = t

\* The processed data the last search read.
SearchedData == data_file[resp.request.video_id].data

Bucket(r) == Round1(r.timestamp)

\* The similarity of a stored vector to the vector a provider returned.
SimilarityTo(provided, vec) == cosine_similarity(provided.vec, vec)

\* C1: the returned results of every search are in non-increasing order of
\* score.
RankedByScore ==
    Served =>
        \A i \in 1..(Len(resp.results) - 1) :
            resp.results[i].score >= resp.results[i + 1].score

\* A hybrid search returned two results of different scores whose candidates
\* were met in the opposite order.
RankedByScoreWitness ==
    /\ ServedType("hybrid")
    /\ Len(resp.results) >= 2
    /\ resp.results[1].score > resp.results[2].score
    /\ resp.candidates[1].score < resp.candidates[2].score

\* C2: no two entries of the deduplicated list (the list total_matches
\* counts), and so no two returned results, have timestamps that round to the
\* same tenth of a second.
OnePerBucket ==
    Served =>
        /\ resp.total_matches = Len(resp.unique_results)
        /\ \A i, j \in 1..Len(resp.unique_results) :
              i # j => Bucket(resp.unique_results[i]) # Bucket(resp.unique_results[j])
        /\ \A i, j \in 1..Len(resp.results) :
              i # j => Bucket(resp.results[i]) # Bucket(resp.results[j])

\* A hybrid search met a text candidate and a visual candidate of one bucket.
OnePerBucketWitness ==
    /\ ServedType("hybrid")
    /\ \E i, j \in 1..Len(resp.candidates) :
          /\ resp.candidates[i].search_type = "text"
          /\ resp.candidates[j].search_type = "visual"
          /\ Bucket(resp.candidates[i]) = Bucket(resp.candidates[j])

\* C3: of every bucket that holds a candidate exactly one candidate survives
\* deduplication, its score is the highest score of the bucket's candidates,
\* and every survivor is one of the candidates, unchanged.
BestOfBucketSurvives ==
    Served =>
        /\ \A i \in 1..Len(resp.candidates) :
              LET survivors == {k \in 1..Len(resp.unique_results) :
                                   Bucket(resp.unique_results[k])
                                       = Bucket(resp.candidates[i])}
              IN  /\ Cardinality(survivors) = 1
                  /\ \A k \in survivors :
                        resp.unique_results[k].score >= resp.candidates[i].score
        /\ \A k \in 1..Len(resp.unique_results) :
              \E i \in 1..Len(resp.candidates) :
                  resp.candidates[i] = resp.unique_results[k]

\* A search met two candidates of one bucket with different scores.
BestOfBucketSurvivesWitness ==
    /\ Served
    /\ \E i, j \in 1..Len(resp.candidates) :
          /\ Bucket(resp.candidates[i]) = Bucket(resp.candidates[j])
          /\ resp.candidates[i].score < resp.candidates[j].score

\* The segments of the searched session whose lowercased text contains the
\* lowercased query.
KeywordSegments ==
    {i \in 1..Len(SearchedData.segments) :
        Contains(Lower(SearchedData.segments[i].text), Lower(resp.request.query))}

\* Segment i is among the candidates of the last search.
IsCandidate(i) ==
    \E c \in 1..Len(resp.candidates) :
        /\ resp.candidates[c].search_type = "text"
        /\ resp.candidates[c].timestamp = SearchedData.segments[i].start

TextServed == ServedType("text") /\ resp.request.text_provider.outcome = "returned"

\* C4 as claimed: in text mode every segment whose text contains the query
\* becomes a candidate, whatever its cosine similarity.
LexicalMatchAlwaysSurfaces ==
    TextServed => \A i \in KeywordSegments : IsCandidate(i)

\* C4 as amended: in text mode a segment whose text contains the query
\* becomes a candidate exactly when its cosine similarity is above zero.
LexicalMatchSurfacesWhenPositive ==
    TextServed =>
        \A i \in KeywordSegments :
            IsCandidate(i) <=>
                SimilarityTo(resp.request.text_provider,
                             SearchedData.text_embeddings[i]) > 0

\* A text search met one segment that contains the query with a similarity
\* in (0, 0.3], which became a candidate, and one with a similarity of at
\* most 0, which did not.
LexicalMatchWitness ==
    /\ TextServed
    /\ \E i, j \in KeywordSegments :
          /\ SimilarityTo(resp.request.text_provider,
                          SearchedData.text_embeddings[i]) \in 1..300
          /\ IsCandidate(i)
          /\ SimilarityTo(resp.request.text_provider,
                          SearchedData.text_embeddings[j]) <= 0
          /\ ~IsCandidate(j)

\* C5: every result of a text search has a score above 0.3 and of at most 1.0.
TextScoreRange ==
    ServedType("text") =>
        \A i \in 1..Len(resp.results) :
            resp.results[i].score > 300 /\ resp.results[i].score <= 1000

\* A text search returned a segment that contains the query and has
\* similarity 1.0 (1.3 before the cap), and a segment that does not contain
\* the query.
TextScoreRangeWitness ==
    /\ TextServed
    /\ \E i \in KeywordSegments :
          /\ SimilarityTo(resp.request.text_provider,
                          SearchedData.text_embeddings[i]) = 1000
          /\ \E r \in 1..Len(resp.results) :
                resp.results[r].timestamp = SearchedData.segments[i].start
    /\ \E r \in 1..Len(resp.results) :
          \E i \in (1..Len(SearchedData.segments)) \ KeywordSegments :
              resp.results[r].timestamp = SearchedData.segments[i].start

\* The candidates of the last search that carry the given tag, in order.
Tagged(t) == SelectSeq(resp.candidates, LAMBDA c : c.search_type = t)

\* C6: in hybrid mode the text candidates are those of text mode, each with
\* half its text-mode score; a frame is a candidate exactly when its raw
\* similarity is above 0.2, with half that similarity as its score; every
\* result tagged visual has a score in (0.1, 0.5].
HybridWeighting ==
    ServedType("hybrid") =>
        /\ resp.request.text_provider.outcome = "returned" =>
              LET text_mode == TextSearch(SearchedData, resp.request.query,
                                          resp.request.text_provider)
              IN  /\ Len(Tagged("text")) = Len(text_mode)
                  /\ \A i \in 1..Len(text_mode) :
                        /\ Tagged("text")[i].timestamp = text_mode[i].timestamp
                        /\ 2 * Tagged("text")[i].score = text_mode[i].score
        /\ resp.request.visual_provider.outcome = "returned" =>
              \A f \in 1..Len(SearchedData.visual_data) :
                  LET vd == SearchedData.visual_data[f]
                      similarity == SimilarityTo(resp.request.visual_provider,
                                                 vd.embedding)
                      found == {c \in 1..Len(Tagged("visual")) :
                                   Tagged("visual")[c].frame_number = vd.frame_number}
                  IN  /\ (found # {}) <=> (similarity > 200)
                      /\ \A c \in found : 2 * Tagged("visual")[c].score = similarity
        /\ \A r \in 1..Len(resp.results) :
              resp.results[r].search_type = "visual" =>
                  resp.results[r].score > 100 /\ resp.results[r].score <= 500

\* A hybrid search with a text candidate, a visual candidate, and a frame of
\* similarity exactly 0.2 that is no candidate.
HybridWeightingWitness ==
    /\ ServedType("hybrid")
    /\ Len(Tagged("text")) > 0
    /\ Len(Tagged("visual")) > 0
    /\ \E r \in 1..Len(resp.results) : resp.results[r].search_type = "visual"
    /\ \E f \in 1..Len(SearchedData.visual_data) :
          /\ SimilarityTo(resp.request.visual_provider,
                          SearchedData.visual_data[f].embedding) = 200
          /\ \A c \in 1..Len(resp.candidates) :
                resp.candidates[c].frame_number
                    # SearchedData.visual_data[f].frame_number

\* The raw similarity of each frame of the searched session to the query.
FrameSimilarities ==
    [f \in 1..Len(SearchedData.visual_data) |->
        SimilarityTo(resp.request.visual_provider,
                     SearchedData.visual_data[f].embedding)]

VisualServed ==
    ServedType("visual") /\ resp.request.visual_provider.outcome = "returned"

\* C7: a visual search over N frames returns min(top_k, N) distinct frames,
\* each with its raw similarity as score, and the i-th result has the i-th
\* highest similarity of all N frames, however low.
VisualTopK ==
    VisualServed =>
        LET sims == FrameSimilarities
            n == Len(sims)
        IN  /\ Len(resp.results) = Min(resp.request.top_k, n)
            /\ \A i \in 1..Len(resp.results) :
                  LET r == resp.results[i]
                  IN  /\ r.frame_number + 1 \in 1..n
                      /\ r.score = sims[r.frame_number + 1]
                      /\ Cardinality({f \in 1..n : sims[f] > r.score}) < i
                      /\ Cardinality({f \in 1..n : sims[f] >= r.score}) >= i
            /\ \A i, j \in 1..Len(resp.results) :
                  i # j => resp.results[i].frame_number # resp.results[j].frame_number

\* A visual search over more frames than top_k returned a frame of negative
\* similarity and left a frame out.
VisualTopKWitness ==
    /\ VisualServed
    /\ Len(SearchedData.visual_data) > resp.request.top_k
    /\ resp.request.top_k >= 2
    /\ \E i \in 1..Len(resp.results) : resp.results[i].score < 0

\* The rounded timestamps of a list of results.
Buckets(results) == {Bucket(results[i]) : i \in 1..Len(results)}

\* C10: when the provider of one mode raises, the search still returns 200;
\* a text or visual search then has no result; a hybrid search has no
\* candidate of the failed mode, and when the other provider answered, every
\* one of its candidates is there and their buckets are ranked and counted.
ProviderFailureDegrades ==
    (resp.handler = "search" /\ data_file[resp.request.video_id].exists
     /\ (resp.request.text_provider = Raised \/ resp.request.visual_provider = Raised))
    =>
        /\ resp.status_code = 200
        /\ resp.request.search_type \in {"text", "visual"} =>
              resp.results = <<>> /\ resp.total_matches = 0
        /\ (resp.request.search_type = "hybrid"
            /\ resp.request.text_provider = Raised) =>
              /\ Tagged("text") = <<>>
              /\ resp.request.visual_provider.outcome = "returned" =>
                    /\ \A f \in 1..Len(FrameSimilarities) :
                          FrameSimilarities[f] > 200 =>
                              \E c \in 1..Len(resp.candidates) :
                                  resp.candidates[c].frame_number = f - 1
                    /\ Buckets(resp.unique_results) = Buckets(resp.candidates)
                    /\ resp.results = Prefix(resp.unique_results, resp.request.top_k)
        /\ (resp.request.search_type = "hybrid"
            /\ resp.request.visual_provider = Raised) =>
              /\ Tagged("visual") = <<>>
              /\ resp.request.text_provider.outcome = "returned" =>
                    /\ \A i \in 1..Len(SearchedData.segments) :
                          (\/ SimilarityTo(resp.request.text_provider,
                                           SearchedData.text_embeddings[i]) > 300
                           \/ /\ i \in KeywordSegments
                              /\ SimilarityTo(resp.request.text_provider,
                                              SearchedData.text_embeddings[i]) > 0)
                          => IsCandidate(i)
                    /\ Buckets(resp.unique_results) = Buckets(resp.candidates)
                    /\ resp.results = Prefix(resp.unique_results, resp.request.top_k)

\* A hybrid search whose text provider raised returned a visual result, on a
\* session that has a segment containing the query.
ProviderFailureDegradesWitness ==
    /\ ServedType("hybrid")
    /\ resp.request.text_provider = Raised
    /\ KeywordSegments # {}
    /\ Len(resp.results) > 0
    /\ resp.results[1].search_type = "visual"

\* The status file of the session the last search asked for says completed.
SearchedCompleted ==
    /\ cache[resp.request.video_id].exists
    /\ cache[resp.request.video_id].status = "completed"

\* C8: a search of a session that is missing, still being ingested or in
\* status error fails as not ready and returns no results.
SearchOnlyWhenCompleted ==
    (resp.handler = "search" /\ ~SearchedCompleted) =>
        resp.status_code = 404 /\ resp.results = <<>>

\* C9: a search with an empty query on a completed session fails, returns no
\* result list and appends nothing to the search history.
EmptyQueryRejected ==
    (resp.handler = "search" /\ resp.request.query = <<>> /\ SearchedCompleted) =>
        /\ resp.status_code # 200
        /\ resp.results = <<>>
        /\ \A i \in 1..Len(search_history[resp.request.video_id]) :
              search_history[resp.request.video_id][i].query # <<>>

\* Every embedding provider the last search called raised.
EveryProviderRaised ==
    /\ resp.handler = "search"
    /\ resp.request.text_provider \in {Raised, NotCalled}
    /\ resp.request.visual_provider \in {Raised, NotCalled}

\* C11: a search on a completed session for which the provider call of every
\* mode it uses fails does not answer successfully with a result list.
AllProvidersFailRejected ==
    (EveryProviderRaised /\ data_file[resp.request.video_id].exists) =>
        resp.status_code # 200

\* C12: no status write other than the error write of a failed ingestion
\* lowers the progress stored for a session, and the progress a status read
\* returned is never above the progress stored later for that session, for
\* ingestions by file or by URL and every number of frames.
ProgressNeverRegresses ==
    [][\A v \in Videos :
          (cache'[v].exists /\ cache'[v].status # "error") =>
              /\ cache[v].exists => cache'[v].progress >= cache[v].progress
              /\ (resp'.handler = "status" /\ resp'.video_id = v
                      /\ resp'.status \notin {"not_found", "error"}) =>
                    resp'.progress <= cache'[v].progress]_vars

\* An ingestion of more than two write intervals of frames has completed
\* and a status read returned its progress 1.0.
ProgressNeverRegressesWitness ==
    /\ resp.handler = "status"
    /\ resp.status = "completed"
    /\ resp.progress = 1000
    /\ data_file[resp.video_id].exists
    /\ Len(data_file[resp.video_id].data.visual_data) > 2 * PROGRESS_EVERY

DeclaredStatuses ==
    {"queued", "downloading", "extracting", "transcribing", "embedding", "storing",
     "completed", "error"}

\* C13: the status stored for an existing session, and the status a status
\* read returns for one, is one of the declared status values.
StatusInDeclaredSet ==
    /\ \A v \in Videos : cache[v].exists => cache[v].status \in DeclaredStatuses
    /\ (resp.handler = "status" /\ resp.status # "not_found") =>
          resp.status \in DeclaredStatuses

\* C14: a search that answers with a result list appends exactly one entry to
\* the history of its video, after the entries already there and leaving them
\* as they were; the entry carries the query, the search type, the number of
\* deduplicated matches and the highest score among them (0 without matches).
\* A search rejected because the session is missing changes no history.
HistoryAppendOnly ==
    [][\A v \in Videos :
          IF resp'.handler = "search" /\ resp'.request.video_id = v
                /\ resp'.status_code = 200
          THEN LET before == search_history[v]
                   after == search_history'[v]
                   entry == after[Len(after)]
                   matches == resp'.unique_results
               IN  /\ Len(after) = Len(before) + 1
                   /\ SubSeq(after, 1, Len(before)) = before
                   /\ entry.query = resp'.request.query
                   /\ entry.search_type = resp'.request.search_type
                   /\ entry.results_count = Len(matches)
                   /\ \A k \in 1..Len(matches) : entry.top_score >= matches[k].score
                   /\ IF matches = <<>> THEN entry.top_score = 0
                      ELSE \E k \in 1..Len(matches) : entry.top_score = matches[k].score
          ELSE search_history'[v] = search_history[v]]_vars

\* Two searches of one video left two different history entries, the later
\* one of a search with two or more matches of different scores.
HistoryAppendOnlyWitness ==
    /\ Served
    /\ Len(search_history[resp.request.video_id]) = 2
    /\ search_history[resp.request.video_id][1]
          # search_history[resp.request.video_id][2]
    /\ Len(resp.unique_results) >= 2
    /\ resp.unique_results[1].score > resp.unique_results[2].score

\* C15: once a deletion request for a session whose ingestion has finished
\* is served, no artifact of the session remains: its video file, audio
\* file, frames directory, status file, data file, tables, clips, search
\* history and bookmarks are gone.
DeletionRemovesEverything ==
    resp.handler = "delete" =>
        LET v == resp.video_id
        IN  /\ v \notin video_files
            /\ v \notin audio_files
            /\ v \notin frames_dirs
            /\ ~cache[v].exists
            /\ ~data_file[v].exists
            /\ \A t \in tables : t[2] # v
            /\ \A c \in clips : c[1] # v
            /\ search_history[v] = <<>>
            /\ bookmarks[v] = <<>>

\* The number of frames the ingestion of v extracted, from frame extraction
\* to the store step.
TaskFrames(v) ==
    IF task[v].pc \in {"text_embeddings", "visual_embeddings", "visual_data"}
    THEN Len(task[v].frame_paths)
    ELSE IF task[v].pc = "store" THEN Len(task[v].visual_data)
    ELSE -1

\* C16: an ingestion that extracted zero frames takes every step from the
\* text embeddings to the store step without the error branch, and its store
\* step writes the data file (with no frame record) and status completed;
\* every visual search on a session without frame records answers
\* successfully with an empty result list.
ZeroFramesDegrade ==
    [][/\ \A v \in Videos :
             (TaskFrames(v) = 0 /\ task'[v] # task[v]) =>
                 /\ task'[v].pc # "done"
                 /\ cache'[v].status # "error"
                 /\ task[v].pc = "store" =>
                       /\ cache'[v].status = "completed"
                       /\ data_file'[v].exists
                       /\ data_file'[v].data.visual_data = <<>>
       /\ (resp' # resp
               /\ resp'.handler = "search" /\ resp'.request.search_type = "visual"
               /\ data_file'[resp'.request.video_id].exists
               /\ data_file'[resp'.request.video_id].data.visual_data = <<>>) =>
             resp'.status_code = 200 /\ resp'.results = <<>>]_vars

\* A visual search was served on a completed session that has segments but
\* no frame record.
ZeroFramesDegradeWitness ==
    /\ ServedType("visual")
    /\ resp.request.visual_provider.outcome = "returned"
    /\ cache[resp.request.video_id].exists
    /\ cache[resp.request.video_id].status = "completed"
    /\ SearchedData.visual_data = <<>>
    /\ SearchedData.segments # <<>>
    /\ resp.results = <<>>

\* The position at which the candidate list of the last search holds r.
Encounter(r) == CHOOSE i \in 1..Len(resp.candidates) : resp.candidates[i] = r

\* C17: no candidate of a surviving result's bucket with the same score was
\* met before it; and of two results with equal scores the one met first
\* comes first in the final list: the earlier segment in text mode, the
\* earlier frame in visual mode, the text candidate in hybrid mode.
TiesKeepEncounterOrder ==
    Served =>
        /\ \A k \in 1..Len(resp.unique_results) :
              \A j \in 1..Len(resp.candidates) :
                  (/\ Bucket(resp.candidates[j]) = Bucket(resp.unique_results[k])
                   /\ resp.candidates[j].score = resp.unique_results[k].score) =>
                      Encounter(resp.unique_results[k]) <= j
        /\ \A k1, k2 \in 1..Len(resp.unique_results) :
              (k1 < k2 /\ resp.unique_results[k1].score = resp.unique_results[k2].score) =>
                  LET a == resp.unique_results[k1]
                      b == resp.unique_results[k2]
                  IN  /\ Encounter(a) < Encounter(b)
                      /\ (a.search_type = "text" /\ b.search_type = "text") =>
                            a.timestamp < b.timestamp
                      /\ (a.search_type = "visual" /\ b.search_type = "visual") =>
                            a.frame_number < b.frame_number
                      /\ a.search_type # b.search_type => a.search_type = "text"
        /\ resp.results = Prefix(resp.unique_results, resp.request.top_k)

\* A hybrid search met a text candidate and a visual candidate of one bucket
\* with equal scores, and returned two results of equal score.
TiesKeepEncounterOrderWitness ==
    /\ ServedType("hybrid")
    /\ \E i, j \in 1..Len(resp.candidates) :
          /\ resp.candidates[i].search_type = "text"
          /\ resp.candidates[j].search_type = "visual"
          /\ Bucket(resp.candidates[i]) = Bucket(resp.candidates[j])
          /\ resp.candidates[i].score = resp.candidates[j].score
    /\ Len(resp.results) = 2
    /\ resp.results[1].score = resp.results[2].score

\* The ingestion of v has started and has written neither completed nor
\* error yet.
BetweenStages(v) ==
    task[v].pc \in {"begin", "extract_audio", "transcribe", "extract_frames",
                    "text_embeddings", "visual_embeddings", "visual_data", "store"}

\* C18: whenever the ingestion of a video is between two pipeline stages, a
\* status read or a search request for another session can be served.
RequestsServedDuringIngestion ==
    \A v \in Videos :
        BetweenStages(v) =>
            \E w \in Videos \ {v} :
                \/ ENABLED get_status(w)
                \/ ENABLED (\E req \in Requests(w, Queries) :
                                WellFormed(req) /\ search_video(req))

\* C19: once the status file of a session holds completed or error, no step
\* of its ingestion changes the status file again.
TerminalStatusStays ==
    [][\A v \in Videos :
          (cache[v].exists /\ cache[v].status \in {"completed", "error"}) =>
              cache'[v] = cache[v]]_vars

\* The upload and upload-url requests accepted so far (all from the one
\* client, on the one day): each of them scheduled a background task.
AcceptedUploads == Cardinality({v \in Videos : task[v].pc # "none"})

\* C20: the remaining_uploads value an accepted upload returns is RATE_LIMIT
\* less the number of uploads accepted from that client that day, so it
\* decreases by one with each accepted upload, and no upload is accepted
\* beyond RATE_LIMIT.
RateLimitCountsUploads ==
    (resp.handler \in {"upload", "upload-url"} /\ resp.status_code = 200) =>
        /\ AcceptedUploads <= RATE_LIMIT
        /\ resp.remaining_uploads = RATE_LIMIT - AcceptedUploads

\* C21: in every persisted session each frame record carries the embedding
\* of the image at its own frame path, and its frame number and timestamp
\* are those of that path, whichever images failed to load.
FrameRecordsAligned ==
    \A v \in Videos :
        data_file[v].exists =>
            \A i \in 1..Len(data_file[v].data.visual_data) :
                LET record == data_file[v].data.visual_data[i]
                IN  /\ record.embedding = EmbedImage(record.frame_path)
                    /\ record.frame_number = record.frame_path - 1
                    /\ record.timestamp = (record.frame_path - 1) * 100

====
